---- MODULE Spec2Model ----
(***************************************************************************)
(* Behavioural model of the browser-environment hooks of portfolio-v4:     *)
(* usePreferredMotion / useAccessibleAnimation, useScrollDirection /       *)
(* useScrollPast over lib/utils throttle, useIntersectionObserver and      *)
(* useKeyPress / useKeyCombination, useCopyToClipboard, useClickOutside,   *)
(* useMediaQuery and the effect lifecycle of the observer hooks.  Each     *)
(* hook family has its own specification (SpecMotion, SpecScroll, ...);    *)
(* the variables of the other families stay at their initial values.       *)
(***************************************************************************)
EXTENDS Integers, Sequences, FiniteSets, TLC

VARIABLES
    \* ---- usePreferredMotion / useAccessibleAnimation ----
    motion,       \* usePreferredMotion state, shared by every call site: "reduce" | "no-preference"
    heap,         \* the keyframe-set objects the variant tables point to (mutable JS objects)
    original,     \* the keyframe-set objects as the variant tables were first defined
    ret,          \* per call site: what its last useAccessibleAnimation call returned
    \* ---- useScrollDirection / useScrollPast / throttle ----
    hasWindow,        \* typeof window !== 'undefined'
    winY,             \* window.scrollY
    scrollDirection,  \* useScrollDirection state: "up" | "down" | "null"
    scrollY,          \* useScrollDirection state
    prevScrollY,      \* useScrollDirection state: the last committed offset
    sub,              \* the attached scroll listener of useScrollDirection: captured prevScrollY and its throttle flag
    isPast,           \* useScrollPast state
    pastInThrottle,   \* throttle flag of the scroll listener of useScrollPast
    timers,           \* pending setTimeout callbacks of the throttles: [owner, remaining]
    sinceProcessed,   \* time since useScrollDirection last processed a sample (saturates at ThrottleMs)
    sinceScroll,      \* time since the platform offset last changed (saturates at ThrottleMs)
    \* ---- useIntersectionObserver ----
    freezeOnceVisible,  \* option of the instance (useScrollAnimation: TRUE, useIsInViewport: FALSE)
    refSet,             \* ref.current is an element
    opts,               \* identity of threshold / root / rootMargin / onChange as of the latest render
    isIntersecting,     \* hook state
    hasIntersected,     \* hook state
    deps,               \* the dependencies the effect last ran with
    observer,           \* the IntersectionObserver of the latest effect run: status and generation
    visible,            \* platform: the region intersects the root right now
    queue,              \* platform: records queued for the observer, oldest first
    lastNotification,   \* the records of the latest notification handed to the callback
    \* ---- useKeyCombination ----
    pressedKeys,        \* the Set of the attached effect closure
    held,               \* keys whose latest event was a key-down
    lastEvent,          \* the latest keyboard event: type, key, defaultPrevented
    firesInPeriod,      \* callback invocations since all required keys came to be held together
    isPressed,          \* useKeyPress state
    \* ---- useCopyToClipboard ----
    clipboard,          \* platform: navigator.clipboard is "present" or "absent"
    copyValue,          \* hook state value
    copySuccess,        \* hook state success: "null" | "true" | "false"
    inflight,           \* writeText promises not yet settled, in the order the calls were made
    lastCall,           \* the copy call that completed last: its text, how it ended, its promise
    \* ---- useClickOutside ----
    menuRef,            \* ref.current: the region element or null
    clickHandler,       \* identity of the handler passed by the latest render
    clickDeps,          \* identity of the handler the effect last ran with
    clickListeners,     \* listeners the hook has on document: [type, fn]
    lastPointer,        \* the latest pointer event: type, target, ref.current then, handler calls
    \* ---- useMediaQuery ----
    width,              \* platform: viewport width in px
    query,              \* the query argument of the latest render
    subscribed,         \* the media query whose MediaQueryList carries the change listener
    mqMatches,          \* hook state `matches`
    \* ---- effect lifecycle of one observer hook instance ----
    instance,           \* which hook the instance is
    mounted,            \* the instance has not been disposed
    effectGen,          \* identity of the listener functions of the latest effect run
    listeners,          \* event listeners the instance has attached: [hook, type, fn]
    \* ---- useLazyImage ----
    src,                \* the src argument of the latest render
    imageSrc,           \* hook state: the exposed src
    isLoaded,           \* hook state
    lazyDeps,           \* the dependencies the image effect last ran with
    loads,              \* Image objects still loading, counted per source
    lastLoad,           \* the load that ended last: its source, the src requested then, how it ended
    srcChanges,         \* how often the host changed src
    \* ---- Projects ----
    data,               \* the project list passed to Projects
    activeFilter,       \* component state: the selected category
    sortedProjects,     \* the list the grid renders
    \* ---- Navigation mobile menu ----
    mobileMenuOpen,     \* component state, latest value
    renderedOpen,       \* mobileMenuOpen as of the latest render: the closures and the mounted menu
    gesture,            \* the pointer gesture under way: phase, target, menu open at its start, outside handler ran
    menuMounted,        \* the menu region is in the document (it stays during its exit animation)
    \* ---- Contact copy button ----
    copiedItem,         \* component state: the label whose copied indicator is shown, or null
    pendingCopies,      \* handleCopy calls waiting at `await copy(text)`
    copiedTimers,       \* pending setTimeout(() => setCopiedItem(null), 2000) callbacks
    lastCopy,           \* the handleCopy call that passed its await last: label, how copy ended, its result
    sinceCopied,        \* ms since setCopiedItem(label) last ran, up to CopiedMs
    \* ---- Experience job selector ----
    jobCount,           \* data.length
    activeJob,          \* component state
    expandedJobs,       \* component state, latest value
    renderedJobs        \* expandedJobs as of the latest render: what the handlers see

motionVars == <<motion, heap, original, ret>>

scrollVars == <<hasWindow, winY, scrollDirection, scrollY, prevScrollY, sub, isPast, pastInThrottle,
                timers, sinceProcessed, sinceScroll>>

observerVars == <<freezeOnceVisible, refSet, opts, isIntersecting, hasIntersected, deps,
                  observer, visible, queue, lastNotification>>

keyVars == <<pressedKeys, held, lastEvent, firesInPeriod, isPressed>>

clipVars == <<clipboard, copyValue, copySuccess, inflight, lastCall>>

clickVars == <<menuRef, clickHandler, clickDeps, clickListeners, lastPointer>>

mqVars == <<width, query, subscribed, mqMatches>>

lifeVars == <<instance, mounted, effectGen, listeners>>

lazyVars == <<src, imageSrc, isLoaded, lazyDeps, loads, lastLoad, srcChanges>>

projectsVars == <<data, activeFilter, sortedProjects>>

navVars == <<mobileMenuOpen, renderedOpen, gesture, menuMounted>>

contactVars == <<copiedItem, pendingCopies, copiedTimers, lastCopy, sinceCopied>>

experienceVars == <<jobCount, activeJob, expandedJobs, renderedJobs>>

vars == <<motion, heap, original, ret,
          hasWindow, winY, scrollDirection, scrollY, prevScrollY, sub, isPast, pastInThrottle,
          timers, sinceProcessed, sinceScroll,
          freezeOnceVisible, refSet, opts, isIntersecting, hasIntersected, deps,
          observer, visible, queue, lastNotification,
          pressedKeys, held, lastEvent, firesInPeriod, isPressed,
          clipboard, copyValue, copySuccess, inflight, lastCall,
          menuRef, clickHandler, clickDeps, clickListeners, lastPointer,
          width, query, subscribed, mqMatches,
          instance, mounted, effectGen, listeners,
          src, imageSrc, isLoaded, lazyDeps, loads, lastLoad, srcChanges,
          data, activeFilter, sortedProjects,
          mobileMenuOpen, renderedOpen, gesture, menuMounted,
          copiedItem, pendingCopies, copiedTimers, lastCopy, sinceCopied,
          jobCount, activeJob, expandedJobs, renderedJobs>>

\* what the actions of one hook family leave alone
motionOthers == <<scrollVars, observerVars, keyVars, clipVars, clickVars, mqVars, lifeVars, lazyVars, projectsVars, navVars, contactVars, experienceVars>>

scrollOthers == <<motionVars, observerVars, keyVars, clipVars, clickVars, mqVars, lifeVars, lazyVars, projectsVars, navVars, contactVars, experienceVars>>

observerOthers == <<motionVars, scrollVars, keyVars, clipVars, clickVars, mqVars, lifeVars, lazyVars, projectsVars, navVars, contactVars, experienceVars>>

keyOthers == <<motionVars, scrollVars, observerVars, clipVars, clickVars, mqVars, lifeVars, lazyVars, projectsVars, navVars, contactVars, experienceVars>>

clipOthers == <<motionVars, scrollVars, observerVars, keyVars, clickVars, mqVars, lifeVars, lazyVars, projectsVars, navVars, contactVars, experienceVars>>

clickOthers == <<motionVars, scrollVars, observerVars, keyVars, clipVars, mqVars, lifeVars, lazyVars, projectsVars, navVars, contactVars, experienceVars>>

mqOthers == <<motionVars, scrollVars, observerVars, keyVars, clipVars, clickVars, lifeVars, lazyVars, projectsVars, navVars, contactVars, experienceVars>>

\* the lifecycle and lazy-image specifications also drive the
\* useIntersectionObserver family
lifeOthers == <<motionVars, scrollVars, keyVars, clipVars, clickVars, mqVars, lazyVars, projectsVars, navVars, contactVars, experienceVars>>

lazyOthers == <<motionVars, scrollVars, keyVars, clipVars, clickVars, mqVars, lifeVars, projectsVars, navVars, contactVars, experienceVars>>

projectsOthers == <<motionVars, scrollVars, observerVars, keyVars, clipVars, clickVars, mqVars, lifeVars, lazyVars, navVars, contactVars, experienceVars>>

navOthers == <<motionVars, scrollVars, observerVars, keyVars, clipVars, clickVars, mqVars, lifeVars, lazyVars, projectsVars, contactVars, experienceVars>>

contactOthers == <<motionVars, scrollVars, observerVars, keyVars, clipVars, clickVars, mqVars, lifeVars, lazyVars, projectsVars, navVars, experienceVars>>

experienceOthers == <<motionVars, scrollVars, observerVars, keyVars, clipVars, clickVars, mqVars, lifeVars, lazyVars, projectsVars, navVars, contactVars>>

(***************************************************************************)
(* Animation definitions.  A definition maps named states to keyframe-set  *)
(* objects; a keyframe set maps property names to values.  Values are      *)
(* opaque tokens (the transform never computes with them); Absent stands   *)
(* for "property not in the object".                                       *)
(***************************************************************************)
Absent == "absent"
NoEntry == "noEntry"

motionKeys == {"x", "y", "scale", "rotate", "rotateX", "rotateY", "rotateZ"}

PropNames == motionKeys \cup {"opacity", "transition"}

StateNames == {"hidden", "visible", "exit"}

\* the transition literal { duration: 0 }
InstantTransition == "duration0"

\* a keyframe-set literal: every property absent except the ones given
KF(kind, given) ==
    [kind |-> kind,
     props |-> [p \in PropNames |-> IF p \in DOMAIN given THEN given[p] ELSE Absent]]

fadeInUp == [hidden |-> "fadeInUp.hidden", visible |-> "fadeInUp.visible", exit |-> "fadeInUp.exit"]

fadeInDown == [hidden |-> "fadeInDown.hidden", visible |-> "fadeInDown.visible", exit |-> "fadeInDown.exit"]

badgeEntrance == [hidden |-> "badgeEntrance.hidden", visible |-> "badgeEntrance.visible", exit |-> NoEntry]

\* a definition supplied by a caller through AnimatedSection's variants prop
customVariants == [hidden |-> "custom.hidden", visible |-> "custom.visible", exit |-> NoEntry]

ObjIds ==
    {"fadeInUp.hidden", "fadeInUp.visible", "fadeInUp.exit",
     "fadeInDown.hidden", "fadeInDown.visible", "fadeInDown.exit",
     "badgeEntrance.hidden", "badgeEntrance.visible",
     "custom.hidden", "custom.visible",
     "reduced.hidden", "reduced.visible"}

\* the keyframe sets of the tables of lib/animations as written in the source
TableHeap ==
    [o \in ObjIds |->
        CASE o = "fadeInUp.hidden"   -> KF("object", [opacity |-> "0", y |-> "20"])
          [] o = "fadeInUp.visible"  -> KF("object", [opacity |-> "1", y |-> "0", transition |-> "defaultTransition"])
          [] o = "fadeInUp.exit"     -> KF("object", [opacity |-> "0", y |-> "-20", transition |-> "fast"])
          [] o = "fadeInDown.hidden" -> KF("object", [opacity |-> "0", y |-> "-20"])
          [] o = "fadeInDown.visible" -> KF("object", [opacity |-> "1", y |-> "0", transition |-> "defaultTransition"])
          [] o = "fadeInDown.exit"   -> KF("object", [opacity |-> "0", y |-> "20", transition |-> "fast"])
          [] o = "badgeEntrance.hidden"  -> KF("object", [opacity |-> "0", scale |-> "0.8"])
          [] o = "badgeEntrance.visible" -> KF("function", [opacity |-> "1", scale |-> "1", transition |-> "normalEaseOut"])
          [] o = "reduced.visible"   -> KF("object", [opacity |-> "1", transition |-> "fast"])
          [] OTHER -> KF("object", [opacity |-> "0"])]

\* the keyframe sets a caller-supplied definition is drawn from
CustomKeyframes ==
    { KF(k, [opacity |-> "0"]) : k \in {"object"} }
    \cup { KF(k, [opacity |-> "1", x |-> "100"]) : k \in {"object", "function"} }
    \cup { KF(k, [rotate |-> "90", transition |-> "slow"]) : k \in {"object"} }

\* the call sites of useAccessibleAnimation and the definition each passes
CallSites == {"AnimatedSection", "SectionHeader", "Navigation", "Badge", "AnimatedSection.custom"}

VariantsOf(c) ==
    CASE c = "AnimatedSection" -> fadeInUp
      [] c = "SectionHeader"   -> fadeInUp
      [] c = "Navigation"      -> fadeInDown
      [] c = "Badge"           -> badgeEntrance
      [] OTHER                 -> customVariants

\* the definition as an observer of the object graph sees it: the properties
\* of every keyframe set (a function-valued variant resolves to the set it returns)
Resolve(def, h) ==
    [k \in StateNames |-> IF def[k] = NoEntry THEN NoEntry ELSE h[def[k]].props]

(***************************************************************************)
(* useAccessibleAnimation, reduced motion active, no reduced variant:      *)
(* `accessible = { ...fullAnimation }` copies the top-level mapping only,  *)
(* so the loop edits the very keyframe objects the caller's definition     *)
(* points to.                                                              *)
(***************************************************************************)
StripObject(obj) ==
    IF obj.kind = "object"
    THEN [obj EXCEPT !.props =
            [p \in PropNames |->
                IF p \in motionKeys THEN Absent
                ELSE IF p = "transition" /\ obj.props[p] # Absent THEN InstantTransition
                ELSE obj.props[p]]]
    ELSE obj

StripHeap(def, h) ==
    [o \in ObjIds |-> IF \E k \in StateNames : def[k] = o THEN StripObject(h[o]) ELSE h[o]]

\* the optional second argument: not given, or a partial definition
NoEntries == [k \in StateNames |-> NoEntry]

undefined == [given |-> FALSE, entries |-> NoEntries]

ReducedAnimations ==
    {undefined,
     [given |-> TRUE, entries |-> NoEntries],
     [given |-> TRUE, entries |-> [NoEntries EXCEPT !["visible"] = "reduced.visible"]],
     [given |-> TRUE, entries |-> [NoEntries EXCEPT !["hidden"] = "reduced.hidden",
                                                    !["visible"] = "reduced.visible"]]}

\* the second argument a call site may pass: the hook takes one from any
\* caller; here Navigation's call is the one that varies it
ReducedAnimationsOf(c) == IF c = "Navigation" THEN ReducedAnimations ELSE {undefined}

\* a merge in which the full definition overrides the reduced one
SpreadFullLast(fullAnimation, reducedAnimation) ==
    [k \in StateNames |-> IF fullAnimation[k] # NoEntry THEN fullAnimation[k] ELSE reducedAnimation[k]]

\* `{ ...fullAnimation, ...reducedAnimation }`
Spread(fullAnimation, reducedAnimation) ==
    [k \in StateNames |-> IF reducedAnimation[k] # NoEntry THEN reducedAnimation[k] ELSE fullAnimation[k]]

\* usePreferredMotion: initial state from matchMedia, then the change listener
MotionStart ==
    /\ motion \in {"reduce", "no-preference"}
    /\ \E h \in CustomKeyframes, v \in CustomKeyframes :
          heap = [TableHeap EXCEPT !["custom.hidden"] = h, !["custom.visible"] = v]
    /\ original = heap
    /\ ret = [c \in CallSites |-> [top |-> "unrendered", pref |-> "none", reduced |-> undefined,
                                   def |-> Resolve(VariantsOf(c), heap)]]

handleChange(matches) ==
    /\ motion' = (IF matches THEN "reduce" ELSE "no-preference")
    /\ motion' # motion
    /\ UNCHANGED <<heap, original, ret>>
    /\ UNCHANGED motionOthers

\* one render of a call site: the body of
\* useAccessibleAnimation(fullAnimation, reducedAnimation)
useAccessibleAnimation(c, reducedAnimation) ==
    LET fullAnimation == VariantsOf(c) IN
    IF motion # "reduce"
    THEN /\ ret' = [ret EXCEPT ![c] = [top |-> "fullAnimation", pref |-> motion,
                                       reduced |-> reducedAnimation,
                                       def |-> Resolve(fullAnimation, heap)]]
         /\ UNCHANGED <<motion, heap, original>>
         /\ UNCHANGED motionOthers
    ELSE IF reducedAnimation.given
    THEN /\ ret' = [ret EXCEPT ![c] = [top |-> "merged", pref |-> motion,
                                       reduced |-> reducedAnimation,
                                       def |-> Resolve(Spread(fullAnimation, reducedAnimation.entries), heap)]]
         /\ UNCHANGED <<motion, heap, original>>
         /\ UNCHANGED motionOthers
    ELSE /\ heap' = StripHeap(fullAnimation, heap)
         /\ ret' = [ret EXCEPT ![c] = [top |-> "accessible", pref |-> motion,
                                       reduced |-> reducedAnimation,
                                       def |-> Resolve(fullAnimation, heap')]]
         /\ UNCHANGED <<motion, original>>
         /\ UNCHANGED motionOthers

MotionNext ==
    \/ \E matches \in BOOLEAN : handleChange(matches)
    \/ \E c \in CallSites : \E reducedAnimation \in ReducedAnimationsOf(c) :
          useAccessibleAnimation(c, reducedAnimation)

(***************************************************************************)
(* useScrollDirection and useScrollPast over lib/utils throttle.           *)
(* Time is counted in steps of TickMs; a throttle timer may fire once its  *)
(* remaining time is 0 (setTimeout never fires early).                     *)
(***************************************************************************)
Threshold == 10

ThrottleMs == 100

PastThrottleMs == 100

PastThreshold == 50

TickMs == 50

ScrollStep == 5

MaxSteps == 3

\* the offsets the page is scrolled to: a run near the top, and the two around PastThreshold
Offsets == {i * ScrollStep : i \in 0..MaxSteps} \cup {PastThreshold, PastThreshold + ScrollStep}

Abs(n) == IF n < 0 THEN -n ELSE n

Min(a, b) == IF a < b THEN a ELSE b

Max(a, b) == IF a > b THEN a ELSE b

\* throttle(func, limit): a fresh closure, `let inThrottle` still undefined (falsy)
throttle(captured) == [prev |-> captured, inThrottle |-> FALSE]

\* a handleScroll that calls setScrollY only after the threshold test
handleScrollGatedOffset(currentScrollY, prev, dir) ==
    IF Abs(currentScrollY - prev) < Threshold
    THEN [scrollY |-> scrollY, scrollDirection |-> dir, prevScrollY |-> prevScrollY]
    ELSE [scrollY |-> currentScrollY,
          scrollDirection |-> IF currentScrollY > prev THEN "down"
                              ELSE IF currentScrollY < prev THEN "up" ELSE dir,
          prevScrollY |-> currentScrollY]

\* the function handed to throttle in useScrollDirection, run with the
\* prevScrollY its effect captured: the state after the sample
handleScroll(currentScrollY, prev, dir) ==
    IF Abs(currentScrollY - prev) < Threshold
    THEN [scrollY |-> currentScrollY, scrollDirection |-> dir, prevScrollY |-> prevScrollY]
    ELSE [scrollY |-> currentScrollY,
          scrollDirection |-> IF currentScrollY > prev THEN "down"
                              ELSE IF currentScrollY < prev THEN "up" ELSE dir,
          prevScrollY |-> currentScrollY]

\* a useScrollPast that compares with >=
handleScrollPastInclusive(currentScrollY) == currentScrollY >= PastThreshold

\* the function handed to throttle in useScrollPast
handleScrollPast(currentScrollY) == currentScrollY > PastThreshold

\* the useState initialisers: window.scrollY, or 0 and false without a window
ScrollStart ==
    /\ hasWindow \in BOOLEAN
    /\ winY \in (IF hasWindow THEN Offsets ELSE {0})
    /\ scrollDirection = "null"
    /\ scrollY = winY
    /\ prevScrollY = winY
    /\ sub = throttle(winY)
    /\ isPast = (IF hasWindow THEN handleScrollPast(winY) ELSE FALSE)
    /\ pastInThrottle = FALSE
    /\ timers = {}
    /\ sinceProcessed = ThrottleMs
    /\ sinceScroll = ThrottleMs

\* the scroll family at rest, for the specifications of the other hooks
ScrollIdle ==
    /\ hasWindow = TRUE
    /\ winY = 0
    /\ scrollDirection = "null"
    /\ scrollY = 0
    /\ prevScrollY = 0
    /\ sub = throttle(0)
    /\ isPast = FALSE
    /\ pastInThrottle = FALSE
    /\ timers = {}
    /\ sinceProcessed = ThrottleMs
    /\ sinceScroll = ThrottleMs

\* the platform scrolls to y and dispatches 'scroll' to both listeners; each
\* listener is the executedFunction of its throttle
ScrollEvent(y) ==
    LET after == handleScroll(y, sub.prev, scrollDirection) IN
    /\ hasWindow
    /\ y # winY
    /\ winY' = y
    /\ sinceScroll' = 0
    /\ IF ~sub.inThrottle
       THEN /\ scrollY' = after.scrollY
            /\ scrollDirection' = after.scrollDirection
            /\ prevScrollY' = after.prevScrollY
            /\ sub' = [sub EXCEPT !.inThrottle = TRUE]
            /\ sinceProcessed' = 0
       ELSE UNCHANGED <<scrollY, scrollDirection, prevScrollY, sub, sinceProcessed>>
    /\ IF ~pastInThrottle
       THEN /\ isPast' = handleScrollPast(y)
            /\ pastInThrottle' = TRUE
       ELSE UNCHANGED <<isPast, pastInThrottle>>
    /\ UNCHANGED hasWindow
    /\ timers' = timers
                 \cup (IF ~sub.inThrottle THEN {[owner |-> "direction", remaining |-> ThrottleMs]} ELSE {})
                 \cup (IF ~pastInThrottle THEN {[owner |-> "past", remaining |-> PastThrottleMs]} ELSE {})
    /\ UNCHANGED scrollOthers

\* setTimeout(() => (inThrottle = false), limit) comes due; a timer of a
\* replaced closure writes the flag of that closure, which nothing reads
TimerExpiry(t) ==
    /\ t \in timers
    /\ t.remaining = 0
    /\ timers' = timers \ {t}
    /\ sub' = IF t.owner = "direction" THEN [sub EXCEPT !.inThrottle = FALSE] ELSE sub
    /\ pastInThrottle' = IF t.owner = "past" THEN FALSE ELSE pastInThrottle
    /\ UNCHANGED <<hasWindow, winY, scrollDirection, scrollY, prevScrollY, isPast,
                   sinceProcessed, sinceScroll>>
    /\ UNCHANGED scrollOthers

\* the render after setPrevScrollY: the effect's dependency changed, so its
\* cleanup removes the listener and the effect attaches a new throttle
Rerender ==
    /\ sub.prev # prevScrollY
    /\ sub' = throttle(prevScrollY)
    /\ timers' = {IF t.owner = "direction" THEN [t EXCEPT !.owner = "dead"] ELSE t : t \in timers}
    /\ UNCHANGED <<hasWindow, winY, scrollDirection, scrollY, prevScrollY, isPast, pastInThrottle,
                   sinceProcessed, sinceScroll>>
    /\ UNCHANGED scrollOthers

\* TickMs pass; the render that a state update scheduled has run by then
Tick ==
    /\ sub.prev = prevScrollY
    /\ \/ \E t \in timers : t.remaining > 0
       \/ sinceProcessed < ThrottleMs
       \/ sinceScroll < ThrottleMs
    /\ timers' = {[t EXCEPT !.remaining = Max(0, t.remaining - TickMs)] : t \in timers}
    /\ sinceProcessed' = Min(ThrottleMs, sinceProcessed + TickMs)
    /\ sinceScroll' = Min(ThrottleMs, sinceScroll + TickMs)
    /\ UNCHANGED <<hasWindow, winY, scrollDirection, scrollY, prevScrollY, sub, isPast, pastInThrottle>>
    /\ UNCHANGED scrollOthers

ScrollNext ==
    \/ \E y \in Offsets : ScrollEvent(y)
    \/ \E t \in timers : TimerExpiry(t)
    \/ Rerender
    \/ Tick

MotionIdle ==
    /\ motion = "no-preference"
    /\ heap = TableHeap
    /\ original = TableHeap
    /\ ret = [c \in CallSites |-> [top |-> "unrendered", pref |-> "none", reduced |-> undefined,
                                   def |-> Resolve(VariantsOf(c), TableHeap)]]

(***************************************************************************)
(* useIntersectionObserver.  The platform follows the IntersectionObserver *)
(* processing model: an observed target gets a record whenever its         *)
(* intersection state differs from the one last recorded (the first time   *)
(* always), records queue up until the callback is invoked with all of     *)
(* them, and disconnect() ends the observation and discards what is queued.*)
(***************************************************************************)
MaxRecords == 2

OptIds == {0, 1}

NoObserver == "none"

\* the effect without its `freezeOnceVisible && hasIntersected` return
EffectObservesAlways(element, freeze, intersected) == element

\* the effect's two early returns: `if (!element) return` and
\* `if (freezeOnceVisible && hasIntersected) return`
EffectObserves(element, freeze, intersected) == element /\ ~(freeze /\ intersected)

\* one run of the effect body: the observer it leaves behind
RunEffect(element, freeze, intersected, old) ==
    IF EffectObserves(element, freeze, intersected)
    THEN [status |-> "connected", gen |-> 1 - old.gen, recorded |-> "unset"]
    ELSE [status |-> NoObserver, gen |-> old.gen, recorded |-> "unset"]

\* which record of the notification the callback reads: `([entry]) => ...`
CallbackEntry(records) == records[1]

ObserverStart ==
    /\ freezeOnceVisible \in BOOLEAN
    /\ refSet \in BOOLEAN
    /\ opts = 0
    /\ isIntersecting = FALSE
    /\ hasIntersected = FALSE
    /\ deps = [opts |-> 0, hasIntersected |-> FALSE]
    /\ observer = RunEffect(refSet, freezeOnceVisible, FALSE, [status |-> NoObserver, gen |-> 0, recorded |-> "unset"])
    /\ visible \in BOOLEAN
    /\ queue = <<>>
    /\ lastNotification = <<>>

ObserverIdle ==
    /\ freezeOnceVisible = FALSE
    /\ refSet = FALSE
    /\ opts = 0
    /\ isIntersecting = FALSE
    /\ hasIntersected = FALSE
    /\ deps = [opts |-> 0, hasIntersected |-> FALSE]
    /\ observer = [status |-> NoObserver, gen |-> 0, recorded |-> "unset"]
    /\ visible = FALSE
    /\ queue = <<>>
    /\ lastNotification = <<>>

\* platform: the region enters or leaves the root
VisibilityChange ==
    /\ visible' = ~visible
    /\ UNCHANGED <<freezeOnceVisible, refSet, opts, isIntersecting, hasIntersected, deps,
                   observer, queue, lastNotification>>
    /\ UNCHANGED observerOthers

\* platform: "update intersection observations" queues a record for a
\* connected observer whose target changed state since the last record
UpdateObservations ==
    /\ observer.status = "connected"
    /\ observer.recorded # (IF visible THEN "true" ELSE "false")
    /\ Len(queue) < MaxRecords
    /\ queue' = Append(queue, visible)
    /\ observer' = [observer EXCEPT !.recorded = IF visible THEN "true" ELSE "false"]
    /\ UNCHANGED <<freezeOnceVisible, refSet, opts, isIntersecting, hasIntersected, deps,
                   visible, lastNotification>>
    /\ UNCHANGED observerOthers

\* platform: "notify intersection observers" invokes the callback of the
\* hook with every queued record
ObserverCallback ==
    LET isElementIntersecting == CallbackEntry(queue) IN
    /\ observer.status = "connected"
    /\ queue # <<>>
    /\ isIntersecting' = isElementIntersecting
    /\ hasIntersected' = (hasIntersected \/ isElementIntersecting)
    /\ observer' = IF freezeOnceVisible /\ isElementIntersecting
                   THEN [observer EXCEPT !.status = "disconnected"]
                   ELSE observer
    /\ lastNotification' = queue
    /\ queue' = <<>>
    /\ UNCHANGED <<freezeOnceVisible, refSet, opts, deps, visible>>
    /\ UNCHANGED observerOthers

\* the host renders with a new threshold, rootMargin or onChange
OptionChange ==
    /\ \E o \in OptIds : o # opts /\ opts' = o
    /\ UNCHANGED <<freezeOnceVisible, refSet, isIntersecting, hasIntersected, deps,
                   observer, visible, queue, lastNotification>>
    /\ UNCHANGED observerOthers

\* a dependency changed: the cleanup disconnects the old observer, then the
\* effect runs again
ObserverEffect ==
    /\ deps # [opts |-> opts, hasIntersected |-> hasIntersected]
    /\ deps' = [opts |-> opts, hasIntersected |-> hasIntersected]
    /\ observer' = RunEffect(refSet, freezeOnceVisible, hasIntersected, observer)
    /\ queue' = <<>>
    /\ UNCHANGED <<freezeOnceVisible, refSet, opts, isIntersecting, hasIntersected,
                   visible, lastNotification>>
    /\ UNCHANGED observerOthers

ObserverNext ==
    \/ VisibilityChange
    \/ UpdateObservations
    \/ ObserverCallback
    \/ OptionChange
    \/ ObserverEffect

(***************************************************************************)
(* useKeyCombination(keys, handler) with keys = ['Control', 'k'], and      *)
(* useKeyPress(targetKey) with targetKey = 'Escape'; both listen on window. *)
(***************************************************************************)
RequiredKeys == {"Control", "k"}

TargetKey == "Escape"

Keys == RequiredKeys \cup {"x", TargetKey}

MaxFires == 3

\* keys.every((key) => pressedKeys.has(key))
allKeysPressed(pressed) == \A key \in RequiredKeys : key \in pressed

\* an upHandler that forgets to delete the key
AfterKeyUpKeepsKey(pressed, key) == pressed

\* upHandler: pressedKeys.delete(event.key)
AfterKeyUp(pressed, key) == pressed \ {key}

\* an upHandler of useKeyPress without its `event.key === targetKey` test
PressedAfterAnyKey(pressed, type, key) == (type = "keydown")

\* useKeyPress downHandler / upHandler: the flag after an event
PressedAfter(pressed, type, key) ==
    IF key = TargetKey THEN (type = "keydown") ELSE pressed

KeyStart ==
    /\ isPressed = FALSE
    /\ pressedKeys = {}
    /\ held = {}
    /\ lastEvent = [type |-> "none", key |-> "none", defaultPrevented |-> FALSE]
    /\ firesInPeriod = 0

KeyIdle == KeyStart

\* downHandler; a key-down of a key that is already held is an auto-repeat
KeyDown(key) ==
    LET fires == allKeysPressed(pressedKeys \cup {key})
        sincePeriodBegan == IF RequiredKeys \subseteq held THEN firesInPeriod ELSE 0
    IN
    /\ pressedKeys' = pressedKeys \cup {key}
    /\ held' = held \cup {key}
    /\ lastEvent' = [type |-> "keydown", key |-> key, defaultPrevented |-> fires]
    /\ firesInPeriod' = IF fires THEN Min(MaxFires, sincePeriodBegan + 1) ELSE sincePeriodBegan
    /\ isPressed' = PressedAfter(isPressed, "keydown", key)
    /\ UNCHANGED keyOthers

KeyUp(key) ==
    /\ pressedKeys' = AfterKeyUp(pressedKeys, key)
    /\ held' = held \ {key}
    /\ lastEvent' = [type |-> "keyup", key |-> key, defaultPrevented |-> FALSE]
    /\ firesInPeriod' = IF RequiredKeys \subseteq held' THEN firesInPeriod ELSE 0
    /\ isPressed' = PressedAfter(isPressed, "keyup", key)
    /\ UNCHANGED keyOthers

\* the host renders with a new keys array or handler: the cleanup removes
\* both listeners and the effect starts over with an empty Set
KeyEffect ==
    /\ pressedKeys # {}
    /\ pressedKeys' = {}
    /\ UNCHANGED <<held, lastEvent, firesInPeriod, isPressed>>
    /\ UNCHANGED keyOthers

KeyNext ==
    \/ \E key \in Keys : KeyDown(key)
    \/ \E key \in Keys : KeyUp(key)
    \/ KeyEffect

(***************************************************************************)
(* useCopyToClipboard.  copy(text) runs to its first await at once; the    *)
(* rest runs when the platform settles writeText, in any order.            *)
(***************************************************************************)
Null == "null"

Texts == {"hello", "hi@example.com"}

MaxInFlight == 2

\* copy without its catch block: the rejection escapes
CopyRejectedRethrows(value, success) == [value |-> value, success |-> success, promise |-> "rejected"]

\* a catch block that forgets setValue(null)
CopyRejectedKeepsValue(value, success) == [value |-> value, success |-> "false", promise |-> "fulfilled"]

\* a success path that forgets setValue(text)
CopyResolvedNoValue(value, text) == [value |-> value, success |-> "true", promise |-> "fulfilled"]

\* a success path that keeps a value that is already set
CopyResolvedFirstWins(value, text) ==
    [value |-> IF value = Null THEN text ELSE value, success |-> "true", promise |-> "fulfilled"]

\* `if (!navigator?.clipboard) { setSuccess(false); return }`
CopyAbsent(value) == [value |-> value, success |-> "false", promise |-> "fulfilled"]

\* after `await navigator.clipboard.writeText(text)`: setValue(text); setSuccess(true)
CopyResolved(value, text) == [value |-> text, success |-> "true", promise |-> "fulfilled"]

\* catch (error): setValue(null); setSuccess(false)
CopyRejected(value, success) == [value |-> Null, success |-> "false", promise |-> "fulfilled"]

NoCall == [text |-> Null, how |-> "none", promise |-> "none", overlapped |-> FALSE, overtaken |-> FALSE]

\* the pending calls once call i has settled: the earlier ones have been overtaken
Settle(calls, i) ==
    [j \in 1..(Len(calls) - 1) |->
        IF j < i THEN [calls[j] EXCEPT !.overtaken = TRUE] ELSE calls[j + 1]]

ClipStart ==
    /\ clipboard \in {"present", "absent"}
    /\ copyValue = Null
    /\ copySuccess = Null
    /\ inflight = <<>>
    /\ lastCall = NoCall

ClipIdle ==
    /\ clipboard = "present"
    /\ copyValue = Null
    /\ copySuccess = Null
    /\ inflight = <<>>
    /\ lastCall = NoCall

\* copy(text) up to its first await
Copy(text) ==
    IF clipboard = "absent"
    THEN LET after == CopyAbsent(copyValue) IN
         /\ copyValue' = after.value
         /\ copySuccess' = after.success
         /\ lastCall' = [text |-> text, how |-> "absent", promise |-> after.promise,
                         overlapped |-> FALSE, overtaken |-> FALSE]
         /\ UNCHANGED <<clipboard, inflight>>
         /\ UNCHANGED clipOthers
    ELSE /\ Len(inflight) < MaxInFlight
         /\ inflight' = Append([j \in 1..Len(inflight) |-> [inflight[j] EXCEPT !.overlapped = TRUE]],
                               [text |-> text, overlapped |-> inflight # <<>>, overtaken |-> FALSE])
         /\ UNCHANGED <<clipboard, copyValue, copySuccess, lastCall>>
         /\ UNCHANGED clipOthers

\* the platform resolves the write of pending call i
WriteResolves(i) ==
    LET after == CopyResolved(copyValue, inflight[i].text) IN
    /\ i \in 1..Len(inflight)
    /\ copyValue' = after.value
    /\ copySuccess' = after.success
    /\ lastCall' = [text |-> inflight[i].text, how |-> "resolved", promise |-> after.promise,
                    overlapped |-> inflight[i].overlapped, overtaken |-> inflight[i].overtaken]
    /\ inflight' = Settle(inflight, i)
    /\ UNCHANGED clipboard
    /\ UNCHANGED clipOthers

\* the platform rejects the write of pending call i
WriteRejects(i) ==
    LET after == CopyRejected(copyValue, copySuccess) IN
    /\ i \in 1..Len(inflight)
    /\ copyValue' = after.value
    /\ copySuccess' = after.success
    /\ lastCall' = [text |-> inflight[i].text, how |-> "rejected", promise |-> after.promise,
                    overlapped |-> inflight[i].overlapped, overtaken |-> inflight[i].overtaken]
    /\ inflight' = Settle(inflight, i)
    /\ UNCHANGED clipboard
    /\ UNCHANGED clipOthers

\* reset(): setValue(null); setSuccess(null)
Reset ==
    /\ <<copyValue, copySuccess, lastCall>> # <<Null, Null, NoCall>>
    /\ copyValue' = Null
    /\ copySuccess' = Null
    /\ lastCall' = NoCall
    /\ UNCHANGED <<clipboard, inflight>>
    /\ UNCHANGED clipOthers

ClipNext ==
    \/ \E text \in Texts : Copy(text)
    \/ \E i \in 1..MaxInFlight : WriteResolves(i)
    \/ \E i \in 1..MaxInFlight : WriteRejects(i)
    \/ Reset

(***************************************************************************)
(* useClickOutside(ref, handler).  The document is a small tree: the menu  *)
(* region with one child, and a toggle button beside it.                   *)
(***************************************************************************)
Nodes == {"body", "region", "child", "toggle"}

ParentOf(n) ==
    CASE n = "child"  -> "region"
      [] n = "region" -> "body"
      [] n = "toggle" -> "body"
      [] OTHER        -> Null

\* Node.contains: the node itself or one of its descendants
RECURSIVE Contains(_, _)
Contains(element, target) ==
    IF target = Null THEN FALSE
    ELSE IF target = element THEN TRUE
    ELSE Contains(element, ParentOf(target))

\* a listener whose containment test leaves out the element itself
ListenerCallsOnStrict(element, target) ==
    ~(element = Null \/ (target # element /\ Contains(element, target)))

\* listener: `if (!element || element.contains(event.target)) return`, then handler(event)
ListenerCalls(element, target) ==
    ~(element = Null \/ Contains(element, target))

PointerTypes == {"mousedown", "touchstart"}

\* document.addEventListener('mousedown', listener) and ('touchstart', listener)
ClickRegistrations(fn) == {[type |-> t, fn |-> fn] : t \in PointerTypes}

ClickStart ==
    /\ menuRef \in {Null, "region"}
    /\ clickHandler = 0
    /\ clickDeps = 0
    /\ clickListeners = ClickRegistrations(0)
    /\ lastPointer = [type |-> "none", target |-> Null, ref |-> Null, calls |-> 0]

ClickIdle ==
    /\ menuRef = Null
    /\ clickHandler = 0
    /\ clickDeps = 0
    /\ clickListeners = ClickRegistrations(0)
    /\ lastPointer = [type |-> "none", target |-> Null, ref |-> Null, calls |-> 0]

\* the platform dispatches a pointer event to every listener of its type
PointerEvent(type, target) ==
    /\ lastPointer' = [type |-> type, target |-> target, ref |-> menuRef,
                       calls |-> Cardinality({l \in clickListeners :
                                    l.type = type /\ ListenerCalls(menuRef, target)})]
    /\ UNCHANGED <<menuRef, clickHandler, clickDeps, clickListeners>>
    /\ UNCHANGED clickOthers

\* the region mounts or unmounts
RefChange ==
    /\ menuRef' = (IF menuRef = Null THEN "region" ELSE Null)
    /\ UNCHANGED <<clickHandler, clickDeps, clickListeners, lastPointer>>
    /\ UNCHANGED clickOthers

\* the host renders with a new handler function
HandlerChange ==
    /\ clickHandler' = 1 - clickHandler
    /\ UNCHANGED <<menuRef, clickDeps, clickListeners, lastPointer>>
    /\ UNCHANGED clickOthers

\* the effect's cleanup removes both listeners and the effect adds new ones
ClickEffect ==
    /\ clickDeps # clickHandler
    /\ clickDeps' = clickHandler
    /\ clickListeners' = (clickListeners \ ClickRegistrations(clickDeps))
                         \cup ClickRegistrations(clickHandler)
    /\ UNCHANGED <<menuRef, clickHandler, lastPointer>>
    /\ UNCHANGED clickOthers

ClickNext ==
    \/ \E type \in PointerTypes, target \in Nodes : PointerEvent(type, target)
    \/ RefChange
    \/ HandlerChange
    \/ ClickEffect

(***************************************************************************)
(* useMediaQuery(query).  A media query is a width range; the platform     *)
(* dispatches 'change' on a MediaQueryList when its evaluation changes.    *)
(***************************************************************************)
NoBound == -1

BreakpointKeys == {"sm", "md", "lg", "xl", "2xl"}

BREAKPOINTS ==
    [k \in BreakpointKeys |->
        CASE k = "sm" -> 640
          [] k = "md" -> 768
          [] k = "lg" -> 1024
          [] k = "xl" -> 1280
          [] OTHER    -> 1536]

\* a literal media condition `(min-width: a px) and (max-width: b px)`
Literal(min, max) == [key |-> "", min |-> min, max |-> max]

\* a breakpoint key passed as the query
Key(k) == [key |-> k, min |-> NoBound, max |-> NoBound]

\* `query in BREAKPOINTS ? (min-width: BREAKPOINTS[query]px) : query`
MediaQueryOf(q) ==
    IF q.key \in BreakpointKeys THEN Literal(BREAKPOINTS[q.key], NoBound) ELSE Literal(q.min, q.max)

\* window.matchMedia(mediaQuery).matches at viewport width w
Evaluate(mq, w) ==
    /\ (mq.min = NoBound \/ w >= mq.min)
    /\ (mq.max = NoBound \/ w <= mq.max)

\* a tablet query whose upper end is the lg breakpoint itself
useIsTabletUpToLg == Literal(BREAKPOINTS["sm"], BREAKPOINTS["lg"])

\* the queries of the predefined hooks
useIsMobile == Literal(NoBound, BREAKPOINTS["sm"] - 1)

useIsTablet == Literal(BREAKPOINTS["sm"], BREAKPOINTS["lg"] - 1)

useIsDesktop == Literal(BREAKPOINTS["lg"], NoBound)

\* the arguments of useMediaQuery: two keys and the queries of the predefined hooks
Queries == {Key("sm"), Key("lg"), useIsMobile, useIsTablet, useIsDesktop}

Widths == {BREAKPOINTS["sm"] - 1, BREAKPOINTS["sm"], BREAKPOINTS["md"],
           BREAKPOINTS["lg"] - 1, BREAKPOINTS["lg"]}

MqStart ==
    /\ width \in Widths
    /\ query \in Queries
    /\ subscribed = MediaQueryOf(query)
    /\ mqMatches = Evaluate(MediaQueryOf(query), width)

MqIdle ==
    /\ width = BREAKPOINTS["lg"]
    /\ query = Key("sm")
    /\ subscribed = MediaQueryOf(Key("sm"))
    /\ mqMatches = TRUE

\* the viewport is resized; the subscribed list fires 'change' if its
\* evaluation changed, and handleChange stores event.matches
Resize(w) ==
    /\ w # width
    /\ width' = w
    /\ mqMatches' = IF Evaluate(subscribed, w) # Evaluate(subscribed, width)
                  THEN Evaluate(subscribed, w)
                  ELSE mqMatches
    /\ UNCHANGED <<query, subscribed>>
    /\ UNCHANGED mqOthers

\* the host renders with another query
QueryChange(q) ==
    /\ q # query
    /\ query' = q
    /\ UNCHANGED <<width, subscribed, mqMatches>>
    /\ UNCHANGED mqOthers

\* mediaQuery changed: the cleanup leaves the old list, the effect
\* subscribes to the new one
MqEffect ==
    /\ subscribed # MediaQueryOf(query)
    /\ subscribed' = MediaQueryOf(query)
    /\ UNCHANGED <<width, query, mqMatches>>
    /\ UNCHANGED mqOthers

MqNext ==
    \/ \E w \in Widths : Resize(w)
    \/ \E q \in Queries : QueryChange(q)
    \/ MqEffect

(***************************************************************************)
(* Effect lifecycle of one instance of an observer hook: what its effect   *)
(* attaches and what its cleanup releases, over re-subscriptions and       *)
(* disposal.  The visibility hook uses the useIntersectionObserver family. *)
(***************************************************************************)
VisibilityHook == "useIntersectionObserver"

ListenerHooks == {"useMediaQuery", "useScrollDirection", "useScrollPast",
                  "useKeyPress", "useClickOutside", "usePreferredMotion"}

\* the events each hook's effect listens to
EventTypes(h) ==
    CASE h = "useMediaQuery"      -> {"change"}
      [] h = "useScrollDirection" -> {"scroll"}
      [] h = "useScrollPast"      -> {"scroll"}
      [] h = "useKeyPress"        -> {"keydown", "keyup"}
      [] h = "useClickOutside"    -> {"mousedown", "touchstart"}
      [] h = "usePreferredMotion" -> {"change"}
      [] OTHER                    -> {}

\* the addEventListener calls of one effect run with listener functions fn
Attached(h, fn) == {[hook |-> h, type |-> t, fn |-> fn] : t \in EventTypes(h)}

\* a cleanup that hands removeEventListener a function other than the one added
ReleasedOtherFunction(h, fn) == {[hook |-> h, type |-> t, fn |-> 1 - fn] : t \in EventTypes(h)}

\* the removeEventListener calls of that run's cleanup: same target, type and function
Released(h, fn) == {[hook |-> h, type |-> t, fn |-> fn] : t \in EventTypes(h)}

\* the cleanup of useIntersectionObserver, when the effect returned one: observer.disconnect()
CleanupObserver(obs) ==
    IF obs.status = "connected" THEN [obs EXCEPT !.status = "disconnected"] ELSE obs

LifeStart ==
    /\ instance \in ListenerHooks \cup {VisibilityHook}
    /\ mounted = TRUE
    /\ effectGen = 0
    /\ listeners = Attached(instance, 0)

LifeIdle ==
    /\ instance = VisibilityHook
    /\ mounted = TRUE
    /\ effectGen = 0
    /\ listeners = {}

\* a dependency of the effect changed: cleanup, then the effect again
Resubscribe ==
    /\ mounted
    /\ instance \in ListenerHooks
    /\ effectGen' = 1 - effectGen
    /\ listeners' = (listeners \ Released(instance, effectGen)) \cup Attached(instance, 1 - effectGen)
    /\ UNCHANGED <<instance, mounted>>
    /\ UNCHANGED observerVars
    /\ UNCHANGED lifeOthers

\* the component unmounts: the cleanup of the latest effect run
Dispose ==
    /\ mounted
    /\ mounted' = FALSE
    /\ listeners' = listeners \ Released(instance, effectGen)
    /\ observer' = CleanupObserver(observer)
    /\ queue' = IF observer.status = "connected" THEN <<>> ELSE queue
    /\ UNCHANGED <<instance, effectGen>>
    /\ UNCHANGED <<freezeOnceVisible, refSet, opts, isIntersecting, hasIntersected, deps,
                   visible, lastNotification>>
    /\ UNCHANGED lifeOthers

LifeNext ==
    \/ Resubscribe
    \/ Dispose
    \/ (instance = VisibilityHook /\ (VisibilityChange \/ UpdateObservations \/ ObserverCallback))
    \/ (instance = VisibilityHook /\ mounted /\ (OptionChange \/ ObserverEffect))

(***************************************************************************)
(* useLazyImage(src, placeholder): useIntersectionObserver with            *)
(* freezeOnceVisible, and an effect that loads src in a detached Image     *)
(* once the region has intersected.  The effect has no cleanup, so a load  *)
(* that was started always runs to its end.                                *)
(***************************************************************************)
Placeholder == ""

Sources == {"a.jpg", "b.jpg"}

MaxSrcChanges == 2

NoLoads == [s \in Sources |-> 0]

\* an effect that does not wait for the first intersection
EffectLoadsBeforeVisible(intersected, s, image) == s # image

\* `if (hasIntersected && src !== imageSrc)`
EffectLoads(intersected, s, image) == intersected /\ s # image

\* `[hasIntersected, src, imageSrc]`
EffectDeps(intersected, s, image) == <<intersected, s, image>>

\* one run of the effect body: the loads in flight afterwards
RunImageEffect(intersected, s, image, loading) ==
    IF EffectLoads(intersected, s, image)
    THEN [loading EXCEPT ![s] = @ + 1]
    ELSE loading

LazyStart ==
    /\ src \in Sources
    /\ imageSrc = Placeholder
    /\ isLoaded = FALSE
    /\ lazyDeps = EffectDeps(FALSE, src, Placeholder)
    /\ loads = RunImageEffect(FALSE, src, Placeholder, NoLoads)
    /\ lastLoad = [src |-> Placeholder, requested |-> Placeholder, how |-> "none"]
    /\ srcChanges = 0

LazyIdle ==
    /\ src = "a.jpg"
    /\ imageSrc = Placeholder
    /\ isLoaded = FALSE
    /\ lazyDeps = EffectDeps(FALSE, "a.jpg", Placeholder)
    /\ loads = NoLoads
    /\ lastLoad = [src |-> Placeholder, requested |-> Placeholder, how |-> "none"]
    /\ srcChanges = 0

\* the host renders with another src
SrcChange(s) ==
    /\ srcChanges < MaxSrcChanges
    /\ s # src
    /\ src' = s
    /\ srcChanges' = srcChanges + 1
    /\ UNCHANGED <<imageSrc, isLoaded, lazyDeps, loads, lastLoad>>
    /\ UNCHANGED observerVars
    /\ UNCHANGED lazyOthers

\* a dependency changed: the effect runs again
ImageEffect ==
    /\ lazyDeps # EffectDeps(hasIntersected, src, imageSrc)
    /\ lazyDeps' = EffectDeps(hasIntersected, src, imageSrc)
    /\ loads' = RunImageEffect(hasIntersected, src, imageSrc, loads)
    /\ UNCHANGED <<src, imageSrc, isLoaded, lastLoad, srcChanges>>
    /\ UNCHANGED observerVars
    /\ UNCHANGED lazyOthers

\* img.onload of a load of s: setImageSrc(s); setIsLoaded(true)
onload(s) ==
    /\ loads[s] > 0
    /\ loads' = [loads EXCEPT ![s] = @ - 1]
    /\ imageSrc' = s
    /\ isLoaded' = TRUE
    /\ lastLoad' = [src |-> s, requested |-> src, how |-> "load"]
    /\ UNCHANGED <<src, lazyDeps, srcChanges>>
    /\ UNCHANGED observerVars
    /\ UNCHANGED lazyOthers

\* a load of s fails: the Image has no onerror handler
LoadFails(s) ==
    /\ loads[s] > 0
    /\ loads' = [loads EXCEPT ![s] = @ - 1]
    /\ lastLoad' = [src |-> s, requested |-> src, how |-> "error"]
    /\ UNCHANGED <<src, imageSrc, isLoaded, lazyDeps, srcChanges>>
    /\ UNCHANGED observerVars
    /\ UNCHANGED lazyOthers

\* every load succeeds
LazyNextLoaded ==
    \/ VisibilityChange
    \/ UpdateObservations
    \/ ObserverCallback
    \/ OptionChange
    \/ ObserverEffect
    \/ \E s \in Sources : SrcChange(s)
    \/ ImageEffect
    \/ \E s \in Sources : onload(s)

LazyNext ==
    \/ LazyNextLoaded
    \/ \E s \in Sources : LoadFails(s)

(***************************************************************************)
(* Projects: the grid renders data filtered by the selected category and   *)
(* sorted with Array.prototype.sort, which is stable; with a consistent    *)
(* comparator its result is the one of a stable insertion sort.            *)
(***************************************************************************)
MaxProjects == 3

PROJECT_CATEGORIES == {"All", "Professional", "Personal", "Tools"}

Years == {2023, 2024}

ProjectValues ==
    [category : {"Professional", "Personal"}, featured : BOOLEAN, year : Years]

ProjectLists == UNION {[1..n -> ProjectValues] : n \in 0..MaxProjects}

\* a comparator that puts older years first
compareOldestFirst(a, b) ==
    IF a.featured /\ ~b.featured THEN -1
    ELSE IF ~a.featured /\ b.featured THEN 1
    ELSE a.year - b.year

\* the comparator passed to sort
compareFn(a, b) ==
    IF a.featured /\ ~b.featured THEN -1
    ELSE IF ~a.featured /\ b.featured THEN 1
    ELSE b.year - a.year

\* p goes before the first element it compares below
InsertSorted(sorted, p) ==
    LET before == {i \in 1..Len(sorted) : compareFn(p, sorted[i]) < 0}
        at == IF before = {} THEN Len(sorted) + 1
              ELSE CHOOSE i \in before : \A j \in before : i <= j
    IN SubSeq(sorted, 1, at - 1) \o <<p>> \o SubSeq(sorted, at, Len(sorted))

RECURSIVE sort(_)
sort(list) ==
    IF list = <<>> THEN <<>>
    ELSE InsertSorted(sort(SubSeq(list, 1, Len(list) - 1)), list[Len(list)])

\* `activeFilter === 'All' ? data : data.filter(...)`
filteredProjects(list, selected) ==
    LET Keep(project) == project.category = selected
    IN IF selected = "All" THEN list ELSE SelectSeq(list, Keep)

ProjectsStart ==
    /\ data \in ProjectLists
    /\ activeFilter = "All"
    /\ sortedProjects = sort(filteredProjects(data, "All"))

ProjectsIdle ==
    /\ data = <<>>
    /\ activeFilter = "All"
    /\ sortedProjects = <<>>

\* a filter button is clicked and the section renders
setActiveFilter(category) ==
    /\ category # activeFilter
    /\ activeFilter' = category
    /\ sortedProjects' = sort(filteredProjects(data, category))
    /\ UNCHANGED data
    /\ UNCHANGED projectsOthers

ProjectsNext == \E category \in PROJECT_CATEGORIES : setActiveFilter(category)

(***************************************************************************)
(* Navigation, mobile layout: the menu region is mounted by a render with  *)
(* mobileMenuOpen true and leaves the document when its exit animation     *)
(* ends; the toggle button sits beside it.  A gesture is touchstart (on    *)
(* touch devices), mousedown, click.  Handlers see the mobileMenuOpen of   *)
(* the render that created them.                                           *)
(***************************************************************************)
NoGesture == [phase |-> "idle", target |-> "body", openAtPress |-> FALSE, outside |-> FALSE]

\* ref.current of menuRef
MenuElement(inDocument) == IF inDocument THEN "region" ELSE Null

\* the toggle's onClick: `setMobileMenuOpen(!mobileMenuOpen)`
ToggleClick(closureOpen) == ~closureOpen

NavStart ==
    /\ mobileMenuOpen = FALSE
    /\ renderedOpen = FALSE
    /\ gesture = NoGesture
    /\ menuMounted = FALSE

NavIdle ==
    /\ mobileMenuOpen = FALSE
    /\ renderedOpen = FALSE
    /\ gesture = NoGesture
    /\ menuMounted = FALSE

\* touchstart or mousedown reaches the document listener of useClickOutside,
\* whose handler is `() => setMobileMenuOpen(false)`
NavPointerDown(type, target) ==
    LET starts == gesture.phase \in {"idle", "clicked"}
        outside == ListenerCalls(MenuElement(menuMounted), target)
    IN
    /\ \/ starts
       \/ type = "mousedown" /\ gesture.phase = "touched" /\ target = gesture.target
    /\ target \in {"region", "child"} => menuMounted
    /\ mobileMenuOpen' = IF outside THEN FALSE ELSE mobileMenuOpen
    /\ gesture' = [phase |-> IF type = "touchstart" THEN "touched" ELSE "down",
                   target |-> target,
                   openAtPress |-> IF starts THEN renderedOpen /\ mobileMenuOpen ELSE gesture.openAtPress,
                   outside |-> IF starts THEN outside ELSE gesture.outside \/ outside]
    /\ UNCHANGED <<renderedOpen, menuMounted>>
    /\ UNCHANGED navOthers

\* the click that ends the gesture: the toggle's onClick, or a menu link's
\* handleNavClick
NavClick ==
    /\ gesture.phase = "down"
    /\ gesture.target \in {"region", "child"} => menuMounted
    /\ mobileMenuOpen' =
          CASE gesture.target = "toggle" -> ToggleClick(renderedOpen)
            [] gesture.target = "child" /\ renderedOpen -> FALSE
            [] OTHER -> mobileMenuOpen
    /\ gesture' = [gesture EXCEPT !.phase = "clicked"]
    /\ UNCHANGED <<renderedOpen, menuMounted>>
    /\ UNCHANGED navOthers

\* useKeyPress('Escape', () => setMobileMenuOpen(false))
NavEscape ==
    /\ mobileMenuOpen
    /\ mobileMenuOpen' = FALSE
    /\ UNCHANGED <<renderedOpen, gesture, menuMounted>>
    /\ UNCHANGED navOthers

\* React renders with the latest state
NavRender ==
    /\ renderedOpen # mobileMenuOpen
    /\ renderedOpen' = mobileMenuOpen
    /\ menuMounted' = (menuMounted \/ mobileMenuOpen)
    /\ UNCHANGED <<mobileMenuOpen, gesture>>
    /\ UNCHANGED navOthers

\* AnimatePresence removes the menu when its exit animation has ended
NavExitComplete ==
    /\ menuMounted
    /\ ~renderedOpen
    /\ menuMounted' = FALSE
    /\ UNCHANGED <<mobileMenuOpen, renderedOpen, gesture>>
    /\ UNCHANGED navOthers

NavNext ==
    \/ \E type \in PointerTypes, target \in Nodes : NavPointerDown(type, target)
    \/ NavClick
    \/ NavEscape
    \/ NavRender
    \/ NavExitComplete

(***************************************************************************)
(* Contact: the copy button of the email row calls                         *)
(* handleCopy(data.email.address, 'email'), which awaits copy(text), sets  *)
(* copiedItem and starts a timer that clears it.                           *)
(***************************************************************************)
CopiedMs == 2000

ContactTickMs == 1000

MaxCopies == 3

CopyLabels == {"email"}

NoCopy == [label |-> Null, how |-> "none", ok |-> FALSE]

\* the boolean copy(text) resolves to, by the way the write ended
CopyResult(how) ==
    CASE how = "resolved" -> CopyResolved(Null, "hi@example.com").success = "true"
      [] how = "rejected" -> CopyRejected(Null, "null").success = "true"
      [] OTHER            -> CopyAbsent(Null).success = "true"

ContactStart ==
    /\ copiedItem = Null
    /\ pendingCopies = <<>>
    /\ copiedTimers = {}
    /\ lastCopy = NoCopy
    /\ sinceCopied = CopiedMs

ContactIdle ==
    /\ copiedItem = Null
    /\ pendingCopies = <<>>
    /\ copiedTimers = {}
    /\ lastCopy = NoCopy
    /\ sinceCopied = CopiedMs

\* onClick: handleCopy(text, label) runs up to `await copy(text)`
handleCopy(label) ==
    /\ Len(pendingCopies) + Cardinality(copiedTimers) < MaxCopies
    /\ pendingCopies' = Append(pendingCopies, label)
    /\ UNCHANGED <<copiedItem, copiedTimers, lastCopy, sinceCopied>>
    /\ UNCHANGED contactOthers

\* copy(text) of the oldest waiting call has ended in the way `how`;
\* handleCopy goes on: setCopiedItem(label); setTimeout(..., 2000)
CopyReturns(how) ==
    LET label == Head(pendingCopies)
        id == CHOOSE i \in 1..MaxCopies : \A t \in copiedTimers : t.id # i
    IN
    /\ pendingCopies # <<>>
    /\ pendingCopies' = Tail(pendingCopies)
    /\ copiedItem' = label
    /\ copiedTimers' = copiedTimers \cup {[id |-> id, remaining |-> CopiedMs]}
    /\ lastCopy' = [label |-> label, how |-> how, ok |-> CopyResult(how)]
    /\ sinceCopied' = 0
    /\ UNCHANGED contactOthers

\* a timer comes due: setCopiedItem(null)
CopiedTimeout(t) ==
    /\ t \in copiedTimers
    /\ t.remaining = 0
    /\ copiedTimers' = copiedTimers \ {t}
    /\ copiedItem' = Null
    /\ UNCHANGED <<pendingCopies, lastCopy, sinceCopied>>
    /\ UNCHANGED contactOthers

\* ContactTickMs pass; a timer that is due fires before time goes on
ContactTick ==
    /\ \A t \in copiedTimers : t.remaining > 0
    /\ copiedTimers # {} \/ sinceCopied < CopiedMs
    /\ copiedTimers' = {[t EXCEPT !.remaining = Max(0, t.remaining - ContactTickMs)] : t \in copiedTimers}
    /\ sinceCopied' = Min(CopiedMs, sinceCopied + ContactTickMs)
    /\ UNCHANGED <<copiedItem, pendingCopies, lastCopy>>
    /\ UNCHANGED contactOthers

ContactNext ==
    \/ \E label \in CopyLabels : handleCopy(label)
    \/ \E how \in {"resolved", "rejected", "absent"} : CopyReturns(how)
    \/ \E t \in copiedTimers : CopiedTimeout(t)
    \/ ContactTick

(***************************************************************************)
(* Experience: one selector button per job.  A click is a discrete event,  *)
(* so React renders its state updates before the next click is handled.    *)
(***************************************************************************)
MaxJobs == 5

\* toggleJobExpansion(index): the set handed to setExpandedJobs
toggleJobExpansion(expanded, index) ==
    IF index \in expanded THEN expanded \ {index} ELSE expanded \cup {index}

\* a click handler that toggles whether or not the job is expanded
SelectJobAlwaysToggles(expanded, index) == toggleJobExpansion(expanded, index)

\* the selector's onClick after setActiveJob: the value of expandedJobs it leaves
SelectJob(expanded, index) ==
    IF index \notin expanded THEN toggleJobExpansion(expanded, index) ELSE expanded

ExperienceStart ==
    /\ jobCount \in 1..MaxJobs
    /\ activeJob = 0
    /\ expandedJobs = {0}
    /\ renderedJobs = {0}

ExperienceIdle ==
    /\ jobCount = 1
    /\ activeJob = 0
    /\ expandedJobs = {0}
    /\ renderedJobs = {0}

\* click on the selector button of job index
JobClick(index) ==
    /\ renderedJobs = expandedJobs
    /\ index # activeJob
    /\ activeJob' = index
    /\ expandedJobs' = SelectJob(renderedJobs, index)
    /\ UNCHANGED <<jobCount, renderedJobs>>
    /\ UNCHANGED experienceOthers

\* React renders with the latest state
ExperienceRender ==
    /\ renderedJobs # expandedJobs
    /\ renderedJobs' = expandedJobs
    /\ UNCHANGED <<jobCount, activeJob, expandedJobs>>
    /\ UNCHANGED experienceOthers

ExperienceNext ==
    \/ \E index \in 0..(jobCount - 1) : JobClick(index)
    \/ ExperienceRender

(***************************************************************************)
(* Specifications, one per hook family.                                    *)
(***************************************************************************)
MotionInit == MotionStart /\ ScrollIdle /\ ObserverIdle /\ KeyIdle /\ ClipIdle /\ ClickIdle /\ MqIdle /\ LifeIdle /\ LazyIdle /\ ProjectsIdle /\ NavIdle /\ ContactIdle /\ ExperienceIdle

SpecMotion == MotionInit /\ [][MotionNext]_vars

ScrollInit == ScrollStart /\ MotionIdle /\ ObserverIdle /\ KeyIdle /\ ClipIdle /\ ClickIdle /\ MqIdle /\ LifeIdle /\ LazyIdle /\ ProjectsIdle /\ NavIdle /\ ContactIdle /\ ExperienceIdle

SpecScroll == ScrollInit /\ [][ScrollNext]_vars

ObserverInit == ObserverStart /\ MotionIdle /\ ScrollIdle /\ KeyIdle /\ ClipIdle /\ ClickIdle /\ MqIdle /\ LifeIdle /\ LazyIdle /\ ProjectsIdle /\ NavIdle /\ ContactIdle /\ ExperienceIdle

SpecObserver == ObserverInit /\ [][ObserverNext]_vars

KeyInit == KeyStart /\ MotionIdle /\ ScrollIdle /\ ObserverIdle /\ ClipIdle /\ ClickIdle /\ MqIdle /\ LifeIdle /\ LazyIdle /\ ProjectsIdle /\ NavIdle /\ ContactIdle /\ ExperienceIdle

SpecKeys == KeyInit /\ [][KeyNext]_vars

ClipInit == ClipStart /\ MotionIdle /\ ScrollIdle /\ ObserverIdle /\ KeyIdle /\ ClickIdle /\ MqIdle /\ LifeIdle /\ LazyIdle /\ ProjectsIdle /\ NavIdle /\ ContactIdle /\ ExperienceIdle

SpecClip == ClipInit /\ [][ClipNext]_vars

ClickInit == ClickStart /\ MotionIdle /\ ScrollIdle /\ ObserverIdle /\ KeyIdle /\ ClipIdle /\ MqIdle /\ LifeIdle /\ LazyIdle /\ ProjectsIdle /\ NavIdle /\ ContactIdle /\ ExperienceIdle

SpecClick == ClickInit /\ [][ClickNext]_vars

MqInit == MqStart /\ MotionIdle /\ ScrollIdle /\ ObserverIdle /\ KeyIdle /\ ClipIdle /\ ClickIdle /\ LifeIdle /\ LazyIdle /\ ProjectsIdle /\ NavIdle /\ ContactIdle /\ ExperienceIdle

SpecMq == MqInit /\ [][MqNext]_vars

LifeInit ==
    /\ LifeStart
    /\ IF instance = VisibilityHook THEN ObserverStart ELSE ObserverIdle
    /\ MotionIdle /\ ScrollIdle /\ KeyIdle /\ ClipIdle /\ ClickIdle /\ MqIdle /\ LazyIdle /\ ProjectsIdle /\ NavIdle /\ ContactIdle /\ ExperienceIdle

SpecLife == LifeInit /\ [][LifeNext]_vars

ProjectsInit == ProjectsStart /\ MotionIdle /\ ScrollIdle /\ ObserverIdle /\ KeyIdle /\ ClipIdle /\ ClickIdle /\ MqIdle /\ LifeIdle /\ LazyIdle /\ NavIdle /\ ContactIdle /\ ExperienceIdle

SpecProjects == ProjectsInit /\ [][ProjectsNext]_vars

NavInit == NavStart /\ MotionIdle /\ ScrollIdle /\ ObserverIdle /\ KeyIdle /\ ClipIdle /\ ClickIdle /\ MqIdle /\ LifeIdle /\ LazyIdle /\ ProjectsIdle /\ ContactIdle /\ ExperienceIdle

SpecNav == NavInit /\ [][NavNext]_vars

ContactInit == ContactStart /\ MotionIdle /\ ScrollIdle /\ ObserverIdle /\ KeyIdle /\ ClipIdle /\ ClickIdle /\ MqIdle /\ LifeIdle /\ LazyIdle /\ ProjectsIdle /\ NavIdle /\ ExperienceIdle

SpecContact == ContactInit /\ [][ContactNext]_vars

ExperienceInit == ExperienceStart /\ MotionIdle /\ ScrollIdle /\ ObserverIdle /\ KeyIdle /\ ClipIdle /\ ClickIdle /\ MqIdle /\ LifeIdle /\ LazyIdle /\ ProjectsIdle /\ NavIdle /\ ContactIdle

SpecExperience == ExperienceInit /\ [][ExperienceNext]_vars

LazyInit ==
    /\ LazyStart
    /\ ObserverStart
    /\ freezeOnceVisible = TRUE
    /\ MotionIdle /\ ScrollIdle /\ KeyIdle /\ ClipIdle /\ ClickIdle /\ MqIdle /\ LifeIdle /\ ProjectsIdle /\ NavIdle /\ ContactIdle /\ ExperienceIdle

SpecLazy == LazyInit /\ [][LazyNext]_vars

\* every load succeeds, no load stays in flight for ever, and a scheduled
\* effect runs
SpecLazyLoaded ==
    /\ LazyInit
    /\ [][LazyNextLoaded]_vars
    /\ WF_vars(ImageEffect)
    /\ WF_vars(\E s \in Sources : onload(s))

(***************************************************************************)
(* Properties.                                                             *)
(***************************************************************************)

\* C1: after useAccessibleAnimation has stripped a definition (reduced motion,
\* no reduced variant), the caller's original definition, every nested
\* keyframe set and transition included, is as it was first defined.
C1_OriginalUnchanged ==
    \A c \in CallSites :
        ret[c].top = "accessible" =>
            Resolve(VariantsOf(c), heap) = Resolve(VariantsOf(c), original)

\* C2: the definition returned by the stripping transform has no x, y, scale,
\* rotate, rotateX, rotateY or rotateZ in any keyframe set, and the opacity of
\* every keyframe set is the opacity of the same set of the input.
C2_StrippedKeepsOpacity ==
    \A c \in CallSites :
        ret[c].top = "accessible" =>
            \A k \in StateNames :
                VariantsOf(c)[k] # NoEntry =>
                    /\ \A m \in motionKeys : ret[c].def[k][m] = Absent
                    /\ ret[c].def[k]["opacity"] = original[VariantsOf(c)[k]].props["opacity"]

\* C3: a call made while the preference is no-preference returns the full
\* definition with every keyframe component as originally defined, whatever
\* preference changes and calls of other call sites came before.
C3_FullWhenNoPreference ==
    \A c \in CallSites :
        ret[c].pref = "no-preference" =>
            ret[c].def = Resolve(VariantsOf(c), original)

\* C4: scrollDirection changes at a sample only when the distance between the
\* sample's offset and the last committed offset exceeds the threshold.
C4_DirectionOnlyBeyondThreshold ==
    [][scrollDirection' # scrollDirection => Abs(winY' - prevScrollY) > Threshold]_vars

\* C5: useScrollDirection processes at most one scroll sample per window of
\* ThrottleMs: when a sample is processed, the previous one is at least
\* ThrottleMs old.
C5_OneSamplePerWindow ==
    [][(~sub.inThrottle /\ sub'.inThrottle) => sinceProcessed >= ThrottleMs]_vars

\* C6: once the platform offset has been still for one throttle interval, the
\* scrollY of useScrollDirection and the flag of useScrollPast reflect it.
C6_ReflectsFinalOffset ==
    sinceScroll >= ThrottleMs =>
        /\ scrollY = winY
        /\ isPast = (winY > PastThreshold)

\* C7: with freezeOnceVisible, once isIntersecting is true it stays true, the
\* observer is not connected from then on, and no new observer is created.
C7_FrozenOnceVisible ==
    [][ /\ (freezeOnceVisible /\ isIntersecting') => observer'.status # "connected"
        /\ (freezeOnceVisible /\ isIntersecting) =>
               (isIntersecting' /\ observer'.gen = observer.gen) ]_vars

\* C7 witness: a frozen instance still reports true after the region left the
\* viewport and the effect ran again with changed options.
C7_Witness ==
    /\ freezeOnceVisible
    /\ isIntersecting
    /\ ~visible
    /\ deps = [opts |-> 1, hasIntersected |-> TRUE]

\* C8: without freezeOnceVisible, after a delivered notification the reported
\* isIntersecting is the most recent intersection state in that notification.
C8_ReportsLatestRecord ==
    (~freezeOnceVisible /\ lastNotification # <<>>) =>
        isIntersecting = lastNotification[Len(lastNotification)]

\* C9: the callback of useKeyCombination fires exactly once for each period in
\* which both required keys are held together.
C9_OncePerPeriod ==
    firesInPeriod = (IF RequiredKeys \subseteq held THEN 1 ELSE 0)

\* C10: the callback and preventDefault are invoked on a key-down only if every
\* required key has had a key-down with no later key-up.
C10_FiresOnlyWhenAllHeld ==
    lastEvent.defaultPrevented => RequiredKeys \subseteq held

\* C10 witness: the callback fired on the key-down of k while Control was held.
C10_Witness ==
    /\ lastEvent = [type |-> "keydown", key |-> "k", defaultPrevented |-> TRUE]
    /\ held = RequiredKeys

\* C11: when copy(t) is called with a working clipboard and the write resolves,
\* the hook state afterwards is success = true and value = t.
C11_ResolvedCopyStoresText ==
    lastCall.how = "resolved" =>
        (copySuccess = "true" /\ copyValue = lastCall.text)

\* C11 witness: a write of "hello" has resolved.
C11_Witness ==
    /\ lastCall.how = "resolved"
    /\ lastCall.text = "hello"
    /\ copyValue = "hello"

\* C12: copy never throws and its promise never rejects; with the clipboard
\* absent or the write rejected, the call completes with success = false.
C12_CopyNeverRejects ==
    /\ lastCall.promise # "rejected"
    /\ lastCall.how \in {"absent", "rejected"} =>
           (lastCall.promise = "fulfilled" /\ copySuccess = "false")

\* C12 witness: the platform rejected a write and the call completed.
C12_Witness ==
    /\ lastCall.how = "rejected"
    /\ lastCall.promise = "fulfilled"

\* C13: a copy that fails for want of a clipboard and a copy that fails because
\* the write was rejected leave the same visible state (value, success).
C13_FailuresLookAlike ==
    lastCall.how \in {"absent", "rejected"} =>
        <<copyValue, copySuccess>> = <<Null, "false">>

\* C13 witness: a copy has failed on a platform without clipboard.
C13_Witness ==
    /\ clipboard = "absent"
    /\ lastCall.how = "absent"

\* C14: when copy calls overlap, the visible (value, success) is the outcome of
\* the call that completed last, whichever call was made last.
C14_LastCompletionWins ==
    lastCall.overlapped =>
        <<copyValue, copySuccess>> =
            (IF lastCall.how = "resolved" THEN <<lastCall.text, "true">> ELSE <<Null, "false">>)

\* C14 witness: of two overlapping calls the one made first completed last,
\* and its text is the value.
C14_Witness ==
    /\ lastCall.overtaken
    /\ lastCall.how = "resolved"
    /\ inflight = <<>>
    /\ copyValue = lastCall.text

\* C18: a processed sample whose offset is less than the threshold away from
\* the last committed offset leaves scrollDirection and the committed offset
\* alone and still sets scrollY to the sample's offset.
C18_SubThresholdSample ==
    [][(~sub.inThrottle /\ sub'.inThrottle /\ Abs(winY' - prevScrollY) < Threshold) =>
          (scrollDirection' = scrollDirection /\ prevScrollY' = prevScrollY /\ scrollY' = winY')]_vars

\* C18 witness: after a committed downward sample, a later sample within the
\* threshold moved scrollY away from the committed offset.
C18_Witness ==
    /\ scrollDirection = "down"
    /\ scrollY # prevScrollY
    /\ Abs(scrollY - prevScrollY) < Threshold
    /\ scrollY = winY
    /\ sub.inThrottle

\* C19: useScrollPast starts as (a window exists and the offset is above the
\* threshold), and after every sample it processes it is true exactly when
\* that sample's offset is above the threshold.
C19_ScrollPastNoHysteresis ==
    /\ isPast = (hasWindow /\ winY > PastThreshold)
    /\ [][(~pastInThrottle /\ pastInThrottle') => (isPast' = (winY' > PastThreshold))]_vars

\* C19 witness: the page was scrolled down to just above the threshold and the
\* flag is true.
C19_Witness ==
    /\ hasWindow
    /\ isPast
    /\ pastInThrottle
    /\ scrollDirection = "down"
    /\ winY = PastThreshold + ScrollStep
    /\ scrollY = winY

\* C20: the flag of useKeyPress is true exactly when the latest key-down or
\* key-up of the target key was a key-down; events of other keys leave it.
C20_PressedFollowsTargetKey ==
    [][ /\ lastEvent'.key = TargetKey => (isPressed' = (lastEvent'.type = "keydown"))
        /\ lastEvent'.key # TargetKey => (isPressed' = isPressed) ]_vars

\* C20 witness: the target key is held and another key has just been released.
C20_Witness ==
    /\ isPressed
    /\ TargetKey \in held
    /\ lastEvent.type = "keyup"
    /\ lastEvent.key = "x"

\* C15: for each mousedown or touchstart, the callback of useClickOutside is
\* called exactly once when the region reference is non-null and the target is
\* neither the region nor one of its descendants, and is not called when the
\* target is inside the region or the reference is null.
C15_OncePerOutsideEvent ==
    lastPointer.type # "none" =>
        lastPointer.calls = (IF lastPointer.ref # Null /\ lastPointer.target \notin {"region", "child"}
                             THEN 1 ELSE 0)

\* C15 witness: after the effect re-subscribed with a new handler, a touchstart
\* on the toggle beside the mounted region called the handler once.
C15_Witness ==
    /\ clickDeps = 1
    /\ lastPointer.type = "touchstart"
    /\ lastPointer.ref = "region"
    /\ lastPointer.target = "toggle"
    /\ lastPointer.calls = 1

\* C16: whenever the hook is subscribed to the current predicate and every
\* change notification has been processed, the boolean of useMediaQuery is
\* true exactly when the viewport width satisfies the current predicate, after
\* viewport changes and after predicate changes alike.
C16_MatchesCurrentPredicate ==
    subscribed = MediaQueryOf(query) => (mqMatches = Evaluate(MediaQueryOf(query), width))

\* C17: once an observer hook instance is disposed, none of its listeners is
\* attached and its intersection observer is not connected, whether the effect
\* returned early, froze the observer, or re-subscribed before.
C17_NothingAttachedAfterDispose ==
    ~mounted => (listeners = {} /\ observer.status # "connected")

\* C17 witness: a visibility instance frozen on first visibility has been
\* disposed.
C17_Witness ==
    /\ ~mounted
    /\ instance = VisibilityHook
    /\ freezeOnceVisible
    /\ hasIntersected

C22_ReducedVariantMerged ==
    [][\A c \in CallSites :
          (ret'[c] # ret[c] /\ motion = "reduce" /\ ret'[c].reduced.given) =>
              /\ heap' = heap
              /\ \A k \in StateNames :
                    ret'[c].def[k] =
                        IF ret'[c].reduced.entries[k] # NoEntry
                        THEN heap[ret'[c].reduced.entries[k]].props
                        ELSE IF VariantsOf(c)[k] = NoEntry THEN NoEntry
                        ELSE heap[VariantsOf(c)[k]].props]_vars

\* C22 witness: Navigation called with a reduced variant that has only a
\* visible entry: visible comes from the reduced variant, hidden is fadeInDown's
\* with its y offset.
C22_Witness ==
    /\ motion = "reduce"
    /\ ret["Navigation"].pref = "reduce"
    /\ ret["Navigation"].reduced.given
    /\ ret["Navigation"].reduced.entries["hidden"] = NoEntry
    /\ ret["Navigation"].def["visible"] = TableHeap["reduced.visible"].props
    /\ ret["Navigation"].def["hidden"] = TableHeap["fadeInDown.hidden"].props

\* C23: the grid shows exactly the projects of data whose category is the
\* selected one (every project when the selection is All), each as often as
\* it is in data; every featured project comes before every other project, and
\* among the featured and among the others the years never increase.
C23_FilteredAndSorted ==
    /\ \A p \in ProjectValues :
          Cardinality({i \in 1..Len(sortedProjects) : sortedProjects[i] = p}) =
              IF activeFilter = "All" \/ p.category = activeFilter
              THEN Cardinality({i \in 1..Len(data) : data[i] = p})
              ELSE 0
    /\ \A i, j \in 1..Len(sortedProjects) :
          i < j =>
              /\ sortedProjects[j].featured => sortedProjects[i].featured
              /\ (sortedProjects[i].featured = sortedProjects[j].featured) =>
                    sortedProjects[i].year >= sortedProjects[j].year

\* C23 witness: with Professional selected, a Personal project is left out
\* and the featured project that was last in data is shown first.
C23_Witness ==
    /\ activeFilter = "Professional"
    /\ Len(data) = 3
    /\ data[2].category = "Personal"
    /\ ~data[1].featured
    /\ data[3].featured
    /\ data[3].year < data[1].year
    /\ sortedProjects = <<data[3], data[1]>>

\* C24: when a gesture on the toggle button began with the mobile menu open
\* and both the outside-click handler and the toggle's click handler have run,
\* the menu is closed.
C24_ToggleClosesOpenMenu ==
    (/\ gesture.phase = "clicked"
     /\ gesture.target = "toggle"
     /\ gesture.openAtPress
     /\ gesture.outside) => ~mobileMenuOpen

\* C25: once scrolling has stopped (no scroll for a throttle window, every
\* throttle timer expired, every scheduled render done, so that only a new
\* scroll can change anything) with the page offset at or below 50 px, the
\* header of Navigation is shown: it is not the case that scrollDirection is
\* down and isPastTop is true.
C25_HeaderShownNearTop ==
    (/\ timers = {}
     /\ sinceScroll = ThrottleMs
     /\ sub.prev = prevScrollY
     /\ winY <= PastThreshold) => ~(scrollDirection = "down" /\ isPast)

\* C26: the copied indicator of an item is shown only when the clipboard
\* write made for that item, the one whose completion set the indicator, has
\* succeeded.
C26_IndicatorOnlyAfterSuccess ==
    copiedItem # Null => (lastCopy.label = copiedItem /\ lastCopy.ok)

\* C27: the copied indicator is cleared only when the full CopiedMs have
\* passed since the copy that was completed last.
C27_IndicatorShownFullPeriod ==
    [][(copiedItem # Null /\ copiedItem' = Null) => sinceCopied >= CopiedMs]_vars

C29_OneLayoutPerWidth ==
    LET mobile == Evaluate(MediaQueryOf(useIsMobile), width)
        tablet == Evaluate(MediaQueryOf(useIsTablet), width)
        desktop == Evaluate(MediaQueryOf(useIsDesktop), width)
    IN /\ mobile = (width <= 639)
       /\ tablet = (width >= 640 /\ width <= 1023)
       /\ desktop = (width >= 1024)
       /\ Cardinality({q \in {useIsMobile, useIsTablet, useIsDesktop} :
                          Evaluate(MediaQueryOf(q), width)}) = 1

\* C29 witness: the viewport is 1023 wide, the last tablet width, and the
\* hook is subscribed to the tablet query and reports true.
C29_Witness ==
    /\ width = 1023
    /\ query = useIsTablet
    /\ subscribed = MediaQueryOf(useIsTablet)
    /\ mqMatches

\* C30: when every load succeeds, whatever the order in which the loads
\* complete, the src exposed by useLazyImage after first intersection
\* eventually equals the requested src and stays equal to it.
C30_ConvergesToRequested ==
    <>[](hasIntersected => imageSrc = src)

====
